---- MODULE Spec2Model ----
(***************************************************************************)
(* A model of moon-sighting (acamarata/moon-sighting).                     *)
(*                                                                         *)
(* Part 1, SpecKernel: the facade's kernel lifecycle (api/index.ts):       *)
(* the module-level activeKernel slot, initKernels, downloadKernels with   *)
(* its cache file, resolveKernel, the kernel-backed queries and the        *)
(* kernel-free Meeus functions.  Every call is an async function: it runs  *)
(* synchronously up to its first await, and each completion of an awaited  *)
(* operation (file read, fetch, file write, hash) is one step that other   *)
(* calls' steps may precede or follow.                                     *)
(*                                                                         *)
(* Part 2, SpecReport: getMoonSightingReport from the resolved kernel to   *)
(* the report, for every outcome of the event search.                      *)
(*                                                                         *)
(* Part 3, SpecEvents: findAltitudeCrossing (coarse sampling, then         *)
(* brentRoot) on the sign of altitude minus threshold over the window.     *)
(*                                                                         *)
(* Part 4, SpecBest: bestTimeHeuristic on millisecond instants.            *)
(*                                                                         *)
(* Part 5, SpecFunctions: the pure functions (best-time scan, visibility   *)
(* criteria, SPK state lookup, lunar phase), each applied to inputs drawn  *)
(* from bounded sets.                                                      *)
(***************************************************************************)
EXTENDS Integers, Sequences, FiniteSets, TLC

VARIABLES
    activeKernel,   \* the module-level singleton: NoKernel or a kernel
    call,           \* per caller: the call in flight and its local variables
    cacheFile,      \* <cacheDir>/de442s.bsp: NoFile or its bytes
    lskCached,      \* <cacheDir>/naif0012.tls exists
    callCount,      \* calls made so far (orders the calls)
    lastInit,       \* callCount of the initKernels call made last
    initFailed,     \* some user initKernels call was rejected
    touched,        \* kernel-free functions that used the kernel machinery
    done            \* the call that completed in the step just taken, if any

kvars == <<activeKernel, call, cacheFile, lskCached, callCount, lastInit,
           initFailed, touched, done>>

\* Part 2, SpecReport: one getMoonSightingReport query from the return of
\* resolveKernel to its own return
VARIABLES
    rq,             \* the query: its options, and what the event search finds
    rep             \* how the query ended: the report, or an exception

rvars == <<rq, rep>>

\* Part 3, SpecEvents: one event of getSunMoonEvents, found by
\* findAltitudeCrossing in the search window
VARIABLES
    falt,           \* f: the body's airless altitude minus the event's threshold
    event           \* the event looked for, and the instant returned for it

evars == <<falt, event>>

\* Part 4, SpecBest: bestTimeHeuristic
VARIABLES
    sunset,         \* sunsetUTC.getTime()
    moonset,        \* moonsetUTC.getTime()
    best            \* the result

bvars == <<sunset, moonset, best>>

\* Part 5, SpecFunctions: the pure functions of the library, each applied
\* to one input
VARIABLES
    fn,             \* the function applied
    arg,            \* its arguments
    out             \* what it returned or threw

fvars == <<fn, arg, out>>

vars == <<kvars, rvars, evars, bvars, fvars>>

----------------------------------------------------------------------------
(* Bounds *)

\* calls made in one behaviour
MaxCalls == 3

Procs == {"c1", "c2"}

\* event instants, in milliseconds after the start of the search window
MaxMs == 5

\* the search window and the coarse sampling step (STEP_S) of
\* findAltitudeCrossing, in ticks; f changes sign only between two ticks
WindowTicks == 10
StepTicks == 4

\* sunset and moonset of the optimized scan, in milliseconds before or
\* after the epoch
MaxScanMs == 2
MaxQMilli == 300
MaxVCenti == 600
MaxArcvDeg == 12
MaxWDeci == 40
MaxRecords == 2
MaxCentiDays == 3000
MaxUtcMs == 2
MaxBracket == 3
MaxCoeffs == 2

----------------------------------------------------------------------------
(* Dates *)

\* a Date | null that is null; a Date is its getTime(), in milliseconds
Null == -1 - MaxMs * 2

\* new Date(ms): TimeClip drops the fraction of num/den, toward zero
NewDate(num, den) ==
    IF num >= 0 THEN num \div den ELSE -((-num) \div den)

----------------------------------------------------------------------------
(* Kernels, buffers, digests *)

\* activeKernel: SpkKernel | null = null
NoKernel == [data |-> "null", full |-> FALSE, by |-> 0]

NoFile == [data |-> "absent", full |-> FALSE]

\* bytes a user-supplied file, buffer or url can hold: a valid SPK file, or
\* bytes too short to hold a DAF file record
UserData == {"user", "short"}

\* bytes NAIF_DE442S_URL can deliver: the released file, or other bytes
NaifData == {"naif", "corrupt"}

\* parseDafFileRecord reads through a DataView: a buffer shorter than the
\* file record makes getInt32 throw a RangeError
ParseThrows(buffer) == buffer.data = "short"

\* SpkKernel.fromBuffer: the file record and summary records are parsed and
\* the index is built inside the private constructor, all synchronously; the
\* caller gets the object only when that is done.  `by` is the object's
\* identity: the call that constructed it.
SpkKernelFromBuffer(buffer, seq) ==
    [data |-> buffer.data, full |-> buffer.full, by |-> seq]

\* readFile on a file another call is still writing sees a prefix of it:
\* nothing yet (too short to parse) or bytes that include the header
ReadOutcomes(file) ==
    IF file.full THEN {file}
    ELSE {file, [data |-> "short", full |-> FALSE]}

\* sha256File: createHash('sha256').update(buf).digest('hex'), lower-case hex
Sha256File(file) == [of |-> file.data, full |-> file.full, upper |-> FALSE]

\* config.checksumOverride as a caller may write it: the digest of the NAIF
\* release, in lower-case or in upper-case hex
ChecksumOverrides == {[of |-> "naif", full |-> TRUE, upper |-> u] : u \in BOOLEAN}

\* String.prototype.toLowerCase
ToLowerCase(digest) == [digest EXCEPT !.upper = FALSE]

\* actual !== config.checksumOverride.toLowerCase()
ChecksumMismatch(actual, override) == actual # ToLowerCase(override)

----------------------------------------------------------------------------
(* Calls *)

KernelFreeOps == {"getMoonPhase", "getMoonPosition", "getMoonIllumination"}
QueryOps == {"getMoonSightingReport", "getSunMoonEvents"}
Ops == {"initKernels", "downloadKernels"} \cup QueryOps \cup KernelFreeOps

\* config?.planetary: absent ("none") or a KernelSource of the given type
Sources == {"none", "auto", "file", "buffer", "url"}
\* config?.checksumOverride: absent, or the expected digest
Sums == {"none", "sha256"}

Idle == [op |-> "none", src |-> "none", sum |-> "none", pc |-> "idle",
         buf |-> NoFile, kernel |-> NoKernel, seq |-> 0, used |-> {},
         expect |-> 0, slot |-> "none", got |-> NoFile]

Free(p) == call[p].pc = "idle"

\* the configurations that mean anything for an operation
Configs(op) ==
    CASE op = "initKernels" ->
            ({"file", "buffer", "url"} \X {"none"}) \cup ({"auto"} \X Sums)
      [] op = "downloadKernels" -> {"auto"} \X Sums
      [] op \in QueryOps ->
            ({"none", "file", "buffer", "url"} \X {"none"})
      [] OTHER -> {<<"none", "none">>}

\* source.type is neither file, buffer nor url: the auto branch
IsAuto(src) == src \in {"none", "auto"}

\* the kernel-free functions take their positions from getMoonSunApproximate
\* (Meeus) and never call resolveKernel
KernelFreeUsesKernel_resolve(op) == op = "getMoonPhase"

KernelFreeUsesKernel(op) == FALSE

NeedsKernel(op) == op \in QueryOps \/ (op \in KernelFreeOps /\ KernelFreeUsesKernel(op))

\* a user's initKernels call is in flight
InitRunning == \E p \in Procs : call[p].op = "initKernels"

\* the state of the slot as a caller sees it
SlotState ==
    IF activeKernel # NoKernel THEN "loaded"
    ELSE IF InitRunning THEN "in_progress"
    ELSE IF initFailed THEN "failed"
    ELSE "never"

\* every user initKernels call made so far has completed successfully
AllInitsSucceeded == lastInit > 0 /\ ~InitRunning /\ ~initFailed

Touch(op) == IF op \in KernelFreeOps THEN touched \cup {op} ELSE touched

\* the kernel each ephemeris evaluation of a query is made against: the
\* local `kernel` that resolveKernel returned, for the event search, the
\* best-time scan and the evaluation at best time alike
EvalKernel_slot(c, stage) == IF stage = "final" THEN activeKernel ELSE c.kernel

EvalKernel(c, stage) == c.kernel

Stages == {"events", "bestTime", "final"}

----------------------------------------------------------------------------
(* Outcomes of a call *)

\* caller p's call goes on as c; a call that has returned or thrown is
\* shown in `done` as it ended, and p is free for its next call
Put(p, c) ==
    /\ IF c.pc \in {"returned", "threw"}
       THEN /\ call' = [call EXCEPT ![p] = Idle]
            /\ done' = [c EXCEPT !.buf = NoFile]
       ELSE /\ call' = [call EXCEPT ![p] = c]
            /\ done' = Idle
    /\ UNCHANGED <<rvars, evars, bvars, fvars>>

Throw(p) ==
    /\ Put(p, [call[p] EXCEPT !.pc = "threw"])
    /\ initFailed' = (initFailed \/ call[p].op = "initKernels")

\* activeKernel = SpkKernel.fromBuffer(buffer): the last statement of
\* initKernels.  A user call returns; resolveKernel's auto-init goes on.
\* `got` is the cache file as the call loaded it.
Install(p, buffer) ==
    IF ParseThrows(buffer)
    THEN Throw(p) /\ UNCHANGED activeKernel
    ELSE /\ activeKernel' = SpkKernelFromBuffer(buffer, call[p].seq)
         /\ Put(p, [call[p] EXCEPT !.pc = IF call[p].op = "initKernels"
                                          THEN "returned" ELSE "afterInit",
                                   !.buf = NoFile,
                                   !.got = IF call[p].sum # "none"
                                           THEN buffer ELSE NoFile])
         /\ UNCHANGED initFailed

\* resolveKernel assigning the kernel it built to the slot
ResolveOwn_install(p, buffer) == Install(p, buffer)

\* return SpkKernel.fromBuffer(...) in resolveKernel: a per-call kernel
ResolveOwn(p, buffer) ==
    /\ IF ParseThrows(buffer)
       THEN Throw(p)
       ELSE /\ Put(p, [call[p] EXCEPT !.pc = "compute", !.buf = NoFile,
                          !.kernel = SpkKernelFromBuffer(buffer, call[p].seq)])
            /\ UNCHANGED initFailed
    /\ UNCHANGED activeKernel

\* a buffer is in hand: initKernels installs it, resolveKernel returns it
Loaded(p, buffer) ==
    IF call[p].op = "initKernels" \/ IsAuto(call[p].src)
    THEN Install(p, buffer)
    ELSE ResolveOwn(p, buffer)

\* no query is being reported on
NoQuery == [kernel |-> "none", sunsetUTC |-> Null, moonsetUTC |-> Null,
            bestTimeMethod |-> "none"]

RIdle == rq = NoQuery /\ rep = [outcome |-> "none"]

NoEvent == [name |-> "none", at |-> Null]

EIdle == falt = [t \in 0..WindowTicks |-> 1] /\ event = NoEvent

\* a best-time result that is null
NoResult == [bestTimeUTC |-> Null, lagMinutes |-> <<>>]

NotRun == [bestTimeUTC |-> Null, lagMinutes |-> <<0>>]

BIdle == sunset = 0 /\ moonset = 0 /\ best = NotRun

\* no function has been applied
NotApplied == [applied |-> FALSE]

FIdle == fn = "none" /\ arg = <<>> /\ out = NotApplied

KIdle ==
    /\ activeKernel = NoKernel
    /\ call = [p \in Procs |-> Idle]
    /\ cacheFile = NoFile
    /\ lskCached = FALSE
    /\ callCount = 0
    /\ lastInit = 0
    /\ initFailed = FALSE
    /\ touched = {}
    /\ done = Idle

----------------------------------------------------------------------------
(* Initial state *)

KInit ==
    /\ RIdle /\ EIdle /\ BIdle /\ FIdle
    /\ activeKernel = NoKernel
    /\ call = [p \in Procs |-> Idle]
    \* the cache directory as an earlier run left it: empty, or holding both files
    /\ \E warm \in BOOLEAN :
          /\ cacheFile = IF warm THEN [data |-> "naif", full |-> TRUE] ELSE NoFile
          /\ lskCached = warm
    /\ callCount = 0
    /\ lastInit = 0
    /\ initFailed = FALSE
    /\ touched = {}
    /\ done = Idle

----------------------------------------------------------------------------
(* Making a call: the synchronous part, up to the first await *)

Begin(op, src, sum) ==
    [Idle EXCEPT !.op = op, !.src = src, !.sum = sum, !.seq = callCount + 1,
                 !.slot = IF op \in KernelFreeOps THEN SlotState ELSE "none"]

\* initKernels(config)
CallInitKernels(p) ==
    /\ Free(p) /\ callCount < MaxCalls
    /\ \E cfg \in Configs("initKernels") :
         LET c == Begin("initKernels", cfg[1], cfg[2]) IN
         /\ callCount' = callCount + 1
         /\ lastInit' = callCount + 1
         /\ UNCHANGED <<cacheFile, lskCached, touched>>
         /\ IF cfg[1] = "buffer"
            THEN \* buffer = source.data; no await before the assignment
                 \E d \in UserData :
                    IF ParseThrows([data |-> d, full |-> TRUE])
                    THEN /\ Put(p, [c EXCEPT !.pc = "threw"])
                         /\ initFailed' = TRUE
                         /\ UNCHANGED activeKernel
                    ELSE /\ activeKernel' =
                              SpkKernelFromBuffer([data |-> d, full |-> TRUE], c.seq)
                         /\ Put(p, [c EXCEPT !.pc = "returned"])
                         /\ UNCHANGED initFailed
            ELSE /\ Put(p, [c EXCEPT !.pc =
                                CASE cfg[1] = "file" -> "readFile"
                                  [] cfg[1] = "url" -> "fetch"
                                  [] OTHER -> "dl_check"])
                 /\ UNCHANGED <<activeKernel, initFailed>>

\* downloadKernels(config)
CallDownloadKernels(p) ==
    /\ Free(p) /\ callCount < MaxCalls
    /\ \E cfg \in Configs("downloadKernels") :
         Put(p, [Begin("downloadKernels", cfg[1], cfg[2]) EXCEPT !.pc = "dl_check"])
    /\ callCount' = callCount + 1
    /\ UNCHANGED <<activeKernel, cacheFile, lskCached, lastInit,
                   initFailed, touched>>

\* resolveKernel(config), as far as it runs before its first await
ResolveStart(p, c) ==
    CASE c.src = "buffer" ->
            \E d \in UserData :
               IF ParseThrows([data |-> d, full |-> TRUE])
               THEN Put(p, [c EXCEPT !.pc = "threw"])
               ELSE Put(p, [c EXCEPT !.pc = "compute",
                        !.kernel = SpkKernelFromBuffer([data |-> d, full |-> TRUE], c.seq)])
      [] c.src = "file" -> Put(p, [c EXCEPT !.pc = "readFile"])
      [] c.src = "url"  -> Put(p, [c EXCEPT !.pc = "fetch"])
      [] OTHER ->
            IF activeKernel # NoKernel
            THEN \* if (activeKernel) return activeKernel
                 Put(p, [c EXCEPT !.pc = "compute",
                            !.kernel = activeKernel,
                            !.expect = IF AllInitsSucceeded THEN lastInit ELSE 0])
            ELSE \* await initKernels(config)
                 Put(p, [c EXCEPT !.pc = "dl_check"])

\* getMoonSightingReport(date, observer, options), getSunMoonEvents(...)
CallQuery(p) ==
    /\ Free(p) /\ callCount < MaxCalls
    /\ \E op \in QueryOps : \E cfg \in Configs(op) :
         ResolveStart(p, Begin(op, cfg[1], cfg[2]))
    /\ callCount' = callCount + 1
    /\ UNCHANGED <<activeKernel, cacheFile, lskCached, lastInit,
                   initFailed, touched>>

\* getMoonPhase(date), getMoonPosition(date, lat, lon), getMoonIllumination(date)
CallKernelFree(p) ==
    /\ Free(p) /\ callCount < MaxCalls
    /\ \E op \in KernelFreeOps :
         LET c == Begin(op, "none", "none") IN
         IF NeedsKernel(op)
         THEN /\ ResolveStart(p, c)
              /\ touched' = Touch(op)
         ELSE /\ Put(p, [c EXCEPT !.pc = "returned"])
              /\ UNCHANGED touched
    /\ callCount' = callCount + 1
    /\ UNCHANGED <<activeKernel, cacheFile, lskCached, lastInit,
                   initFailed>>

----------------------------------------------------------------------------
(* Completions of awaited operations *)

\* await readFileAsBuffer(path): the user's file, or the cached de442s.bsp
ReadFile(p) ==
    /\ call[p].pc = "readFile"
    /\ UNCHANGED <<cacheFile, lskCached, callCount, lastInit, touched>>
    /\ IF IsAuto(call[p].src)
       THEN IF cacheFile = NoFile
            THEN Throw(p) /\ UNCHANGED activeKernel
            ELSE \E b \in ReadOutcomes(cacheFile) : Loaded(p, b)
       ELSE \/ Throw(p) /\ UNCHANGED activeKernel          \* ENOENT
            \/ \E d \in UserData : Loaded(p, [data |-> d, full |-> TRUE])

\* await fetch(source.url); await res.arrayBuffer()
Fetch(p) ==
    /\ call[p].pc = "fetch"
    /\ UNCHANGED <<cacheFile, lskCached, callCount, lastInit, touched>>
    /\ \/ Throw(p) /\ UNCHANGED activeKernel               \* !res.ok
       \/ \E d \in UserData : Loaded(p, [data |-> d, full |-> TRUE])

\* downloadKernels after await mkdir: existsSync(planetaryPath)
DlCheck(p) ==
    /\ call[p].pc = "dl_check"
    /\ Put(p, [call[p] EXCEPT !.pc =
                  IF cacheFile = NoFile THEN "dl_fetch" ELSE "dl_lsk"])
    /\ touched' = Touch(call[p].op)
    /\ UNCHANGED <<activeKernel, cacheFile, lskCached, callCount, lastInit,
                   initFailed>>

\* await fetch(NAIF_DE442S_URL); await res.arrayBuffer(); writeFile begins
DlFetch(p) ==
    /\ call[p].pc = "dl_fetch"
    /\ UNCHANGED <<activeKernel, lskCached, callCount, lastInit, touched>>
    /\ \/ Throw(p) /\ UNCHANGED cacheFile                  \* !res.ok
       \/ \E d \in NaifData :
            /\ Put(p, [call[p] EXCEPT !.pc = "dl_write",
                                      !.buf = [data |-> d, full |-> TRUE]])
            /\ cacheFile' = [data |-> d, full |-> FALSE]
            /\ UNCHANGED initFailed

\* await writeFile(planetaryPath, Buffer.from(buf)) completes
DlWrite(p) ==
    /\ call[p].pc = "dl_write"
    /\ cacheFile' = call[p].buf
    /\ Put(p, [call[p] EXCEPT !.pc =
                  IF call[p].sum # "none" THEN "dl_sha" ELSE "dl_lsk"])
    /\ UNCHANGED <<activeKernel, lskCached, callCount, lastInit,
                   initFailed, touched>>

\* await sha256File(planetaryPath) and the comparison
DlSha(p) ==
    /\ call[p].pc = "dl_sha"
    /\ UNCHANGED <<activeKernel, cacheFile, lskCached, callCount, lastInit, touched>>
    /\ \E override \in ChecksumOverrides :
         IF ChecksumMismatch(Sha256File(cacheFile), override)
         THEN Throw(p)
         ELSE /\ Put(p, [call[p] EXCEPT !.pc = "dl_lsk"])
              /\ UNCHANGED initFailed

\* return { planetaryPath, leapSecondsPath }: `got` is the file those paths
\* name, as it is at that moment
DlReturn(p) ==
    [call[p] EXCEPT !.pc = IF call[p].op = "downloadKernels"
                           THEN "returned" ELSE "readFile",
                    !.buf = NoFile,
                    !.got = IF call[p].sum # "none" THEN cacheFile ELSE NoFile]

\* existsSync(leapSecondsPath); when absent: await fetch(NAIF_LSK_URL),
\* await res.text(), await writeFile(leapSecondsPath); then the return
DlLsk(p) ==
    /\ call[p].pc = "dl_lsk"
    /\ UNCHANGED <<activeKernel, cacheFile, callCount, lastInit, touched>>
    /\ IF lskCached
       THEN Put(p, DlReturn(p)) /\ UNCHANGED <<lskCached, initFailed>>
       ELSE \/ Throw(p) /\ UNCHANGED lskCached             \* !res.ok
            \/ /\ lskCached' = TRUE
               /\ Put(p, DlReturn(p))
               /\ UNCHANGED initFailed

\* resolveKernel after await initKernels(config)
AfterInit(p) ==
    /\ call[p].pc = "afterInit"
    /\ UNCHANGED <<activeKernel, cacheFile, lskCached, callCount, lastInit, touched>>
    /\ IF activeKernel = NoKernel
       THEN Throw(p)
       ELSE /\ Put(p, [call[p] EXCEPT !.pc = "compute", !.kernel = activeKernel])
            /\ UNCHANGED initFailed

\* the query after await resolveKernel(...): synchronous to its return
Compute(p) ==
    /\ call[p].pc = "compute"
    /\ Put(p, [call[p] EXCEPT !.pc = "returned",
                              !.used = {EvalKernel(call[p], st) : st \in Stages}])
    /\ UNCHANGED <<activeKernel, cacheFile, lskCached, callCount, lastInit,
                   initFailed, touched>>

KNext ==
    \E p \in Procs :
       \/ CallInitKernels(p)
       \/ CallDownloadKernels(p)
       \/ CallQuery(p)
       \/ CallKernelFree(p)
       \/ ReadFile(p)
       \/ Fetch(p)
       \/ DlCheck(p)
       \/ DlFetch(p)
       \/ DlWrite(p)
       \/ DlSha(p)
       \/ DlLsk(p)
       \/ AfterInit(p)
       \/ Compute(p)

SpecKernel == KInit /\ [][KNext]_vars

----------------------------------------------------------------------------
(* Properties of the kernel lifecycle *)

QueryReturned == done.op \in QueryOps /\ done.pc = "returned"

\* C1: under any interleaving of initKernels calls and queries, a query that
\* returns made all of its ephemeris evaluations against exactly one kernel,
\* the one resolveKernel gave it, and that kernel is a constructed one (the
\* parse of its bytes succeeded): its own when the query named a per-call
\* source, a kernel some call installed in the slot otherwise.
C1_OneKernelPerQuery ==
    QueryReturned =>
       /\ done.used = {done.kernel}
       /\ done.kernel # NoKernel
       /\ ~ParseThrows(done.kernel)
       /\ done.kernel.by \in 1..callCount
       /\ done.src # "none" => done.kernel.by = done.seq

\* a query with no per-call source returned after an initKernels call had
\* replaced the kernel the query had resolved
C1_Witness ==
    /\ QueryReturned
    /\ done.src = "none"
    /\ activeKernel # NoKernel
    /\ activeKernel # done.kernel

\* C2: a query with no per-call source, made when every initKernels call
\* made so far has completed successfully, uses the kernel loaded by the
\* initKernels call that was made last.
C2_LastCallWins ==
    (QueryReturned /\ done.src = "none" /\ done.expect # 0)
       => done.kernel.by = done.expect

\* C6: in every state of the slot, getMoonPhase, getMoonPosition and
\* getMoonIllumination return without throwing, without going through
\* resolveKernel (no read or write of activeKernel) and without entering
\* downloadKernels.
C6_KernelFree ==
    /\ touched = {}
    /\ done.op \in KernelFreeOps => done.pc = "returned"
    /\ \A p \in Procs : call[p].op \notin KernelFreeOps

\* a kernel-free function returned while another caller's initKernels was
\* in flight and the slot was still empty
C6_Witness ==
    /\ done.op \in KernelFreeOps
    /\ done.pc = "returned"
    /\ done.slot = "in_progress"
    /\ activeKernel = NoKernel

\* C7: when downloadKernels, or initKernels in auto mode, returns with
\* checksumOverride configured, the cache file it returned or loaded (a
\* completely written one) has that SHA-256 digest.
C7_CacheHasDigest ==
    (done.op \in {"initKernels", "downloadKernels"} /\ done.pc = "returned"
        /\ done.sum # "none" /\ done.got.full)
       => \A override \in ChecksumOverrides :
             ~ChecksumMismatch(Sha256File(done.got), override)

\* C29: the slot changes only in the last step of an initKernels call that
\* succeeds (a user's call, which then returns, or the one resolveKernel
\* awaits); the step in which a call throws leaves the slot as it was; and
\* no step of a query given a file, buffer or url source changes the slot,
\* the kernel such a query computes with being the one built for it.
C29_SlotChangesOnInit ==
    [][/\ activeKernel' # activeKernel =>
            \/ /\ done'.op = "initKernels" /\ done'.pc = "returned"
               /\ activeKernel'.by = done'.seq
            \/ \E p \in Procs :
                  /\ call[p].pc = "readFile" /\ IsAuto(call[p].src)
                  /\ call'[p].pc = "afterInit"
                  /\ activeKernel'.by = call[p].seq
       /\ done'.pc = "threw" => activeKernel' = activeKernel
       /\ LET actors == {p \in Procs : call'[p] # call[p]}
              \* the call that took the step
              c == IF actors = {} THEN done'
                   ELSE LET p == CHOOSE q \in actors : TRUE
                        IN  IF call[p] # Idle THEN call[p] ELSE call'[p]
          IN  (c.op \in QueryOps /\ c.src \in {"file", "buffer", "url"})
                 => /\ activeKernel' = activeKernel
                    /\ \A p \in actors :
                          call'[p].pc = "compute"
                             => call'[p].kernel.by = c.seq]_vars

\* a query with a per-call source returned with its own kernel while the
\* slot held the kernel of an earlier initKernels call, a later initKernels
\* call having failed
C29_Witness ==
    /\ QueryReturned
    /\ done.src \in {"file", "buffer", "url"}
    /\ done.kernel.by = done.seq
    /\ initFailed
    /\ activeKernel # NoKernel
    /\ activeKernel.by < lastInit

\* C30: under any interleaving of auto-mode initKernels and downloadKernels
\* calls and of first queries, every kernel that becomes active was parsed
\* from a completely written file: none was read from a cache file that
\* another call was still writing.
C30_ActiveFromWholeFile ==
    activeKernel # NoKernel => activeKernel.full

----------------------------------------------------------------------------
(* Part 2: getMoonSightingReport *)

\* options?.bestTimeMethod: absent, 'heuristic' or 'optimized'
Methods == {"absent", "heuristic", "optimized"}

\* the kernel the query resolved: none could be resolved; one whose segments
\* end with the civil day of the date; one that spans the 28-hour window
ReportKernels == {"unresolved", "day", "window"}

EventTimes == {Null} \cup (0..MaxMs)

\* the default `steps` of bestTimeOptimized
ScanSteps == 90

\* bestTimeHeuristic with `lagMs < 0` for its guard
bestTimeHeuristic_strict(sunsetUTC, moonsetUTC) ==
    LET lagMs == moonsetUTC - sunsetUTC IN
    IF lagMs < 0 THEN NoResult
    ELSE [bestTimeUTC |-> NewDate(9 * sunsetUTC + 4 * lagMs, 9),
          lagMinutes |-> <<lagMs, 60000>>]

\* bestTimeHeuristic(sunsetUTC, moonsetUTC); lagMinutes = lagMs / 60000 is
\* kept as the fraction <<lagMs, 60000>>
bestTimeHeuristic(sunsetUTC, moonsetUTC) ==
    LET lagMs == moonsetUTC - sunsetUTC IN
    IF lagMs <= 0 THEN NoResult
    ELSE [bestTimeUTC |-> NewDate(9 * sunsetUTC + 4 * lagMs, 9),
          lagMinutes |-> <<lagMs, 60000>>]

\* bestTimeOptimized(sunsetUTC, moonsetUTC, kernel, observer): the scan
\* instant i of 0..steps is the first one with the largest V
bestTimeOptimized(sunsetUTC, moonsetUTC, i) ==
    LET lagMs == moonsetUTC - sunsetUTC IN
    IF lagMs <= 0 THEN NoResult
    ELSE [bestTimeUTC |-> NewDate(ScanSteps * sunsetUTC + lagMs * i, ScanSteps),
          lagMinutes |-> <<lagMs, 60000>>]

\* computeObservationWindow(bestTimeUTC), windowMinutes = 20
computeObservationWindow(bestTimeUTC) ==
    <<bestTimeUTC - 20 * 60000, bestTimeUTC + 20 * 60000>>

NotPossibleGuidance ==
    "Sighting not possible: sunset or moonset could not be determined for this date and location."

\* buildNullReport(date, observer, events, source, sightingPossible)
buildNullReport_possible(sunsetUTC, moonsetUTC, source, sightingPossible) ==
    [sunsetUTC |-> sunsetUTC, moonsetUTC |-> moonsetUTC, lagMinutes |-> <<>>,
     bestTimeUTC |-> Null, bestTimeWindowUTC |-> <<>>,
     geometry |-> "null", yallop |-> "null", odeh |-> "null",
     guidance |-> NotPossibleGuidance, ephemerisSource |-> source,
     moonAboveHorizon |-> "null", sightingPossible |-> TRUE]

buildNullReport_noGuidance(sunsetUTC, moonsetUTC, source, sightingPossible) ==
    [sunsetUTC |-> sunsetUTC, moonsetUTC |-> moonsetUTC, lagMinutes |-> <<>>,
     bestTimeUTC |-> Null, bestTimeWindowUTC |-> <<>>,
     geometry |-> "null", yallop |-> "null", odeh |-> "null",
     guidance |-> "null", ephemerisSource |-> source,
     moonAboveHorizon |-> "null", sightingPossible |-> sightingPossible]

buildNullReport(sunsetUTC, moonsetUTC, source, sightingPossible) ==
    [sunsetUTC |-> sunsetUTC, moonsetUTC |-> moonsetUTC, lagMinutes |-> <<>>,
     bestTimeUTC |-> Null, bestTimeWindowUTC |-> <<>>,
     geometry |-> "null", yallop |-> "null", odeh |-> "null",
     guidance |-> NotPossibleGuidance, ephemerisSource |-> source,
     moonAboveHorizon |-> "null", sightingPossible |-> sightingPossible]

\* if (!bestTimeResult) return buildNullReport(...), before the result is
\* destructured
NoBestTime_unchecked(bestTimeResult) == FALSE

NoBestTime(bestTimeResult) == bestTimeResult = NoResult

Threw(error) == [outcome |-> "threw", error |-> error]
Returned(report) == [outcome |-> "returned", report |-> report]

\* getMoonSightingReport after `await resolveKernel(options?.kernels)`.
\* i: where the optimized scan finds its maximum; above: the Moon's airless
\* altitude at best time is positive.
getMoonSightingReport(q, i, above) ==
    IF q.kernel = "unresolved" THEN Threw("resolveKernel")
    \* the event search samples the kernel up to etStart + 28 h; getState
    \* throws where no segment covers et
    ELSE IF q.kernel # "window" THEN Threw("no path")
    ELSE IF q.sunsetUTC = Null \/ q.moonsetUTC = Null
    THEN Returned(buildNullReport(q.sunsetUTC, q.moonsetUTC, "DE442S", FALSE))
    ELSE
      LET method == IF q.bestTimeMethod = "absent" THEN "heuristic"
                    ELSE q.bestTimeMethod
          opt == IF method = "optimized"
                 THEN bestTimeOptimized(q.sunsetUTC, q.moonsetUTC, i)
                 ELSE NoResult
          bestTimeResult == IF opt # NoResult THEN opt
                            ELSE bestTimeHeuristic(q.sunsetUTC, q.moonsetUTC)
      IN
      IF NoBestTime(bestTimeResult)
      THEN Returned(buildNullReport(q.sunsetUTC, q.moonsetUTC, "DE442S", FALSE))
      ELSE IF bestTimeResult = NoResult
      THEN Threw("TypeError")     \* const { bestTimeUTC, lagMinutes } = null
      ELSE Returned(
        [sunsetUTC |-> q.sunsetUTC, moonsetUTC |-> q.moonsetUTC,
         lagMinutes |-> bestTimeResult.lagMinutes,
         bestTimeUTC |-> bestTimeResult.bestTimeUTC,
         bestTimeWindowUTC |-> computeObservationWindow(bestTimeResult.bestTimeUTC),
         geometry |-> "computed", yallop |-> "computed", odeh |-> "computed",
         guidance |-> "text", ephemerisSource |-> "DE442S",
         moonAboveHorizon |-> IF above THEN "true" ELSE "false",
         sightingPossible |-> (above /\ bestTimeResult.lagMinutes[1] > 0)])

Queries ==
    [kernel : ReportKernels, sunsetUTC : EventTimes, moonsetUTC : EventTimes,
     bestTimeMethod : Methods]

\* a query is made: the options the caller passes, the kernel resolved for
\* it and the events the search will find for the date and observer
RInit ==
    /\ KIdle /\ EIdle /\ BIdle /\ FIdle
    /\ rq \in Queries
    /\ rep = [outcome |-> "none"]

\* the query runs to its return or its exception
SightingReport ==
    /\ rep.outcome = "none"
    /\ \E i \in 0..ScanSteps, above \in BOOLEAN :
          rep' = getMoonSightingReport(rq, i, above)
    /\ UNCHANGED <<rq, kvars, evars, bvars, fvars>>

RNext == SightingReport

SpecReport == RInit /\ [][RNext]_vars

NullEvents == rq.sunsetUTC = Null \/ rq.moonsetUTC = Null

\* C3: when the event search yields a null sunset or a null moonset, the
\* report returned has geometry, yallop, odeh, bestTimeUTC and
\* bestTimeWindowUTC null, sightingPossible false and ephemerisSource set.
C3_NullReport ==
    (rep.outcome = "returned" /\ NullEvents) =>
       /\ rep.report.geometry = "null"
       /\ rep.report.yallop = "null"
       /\ rep.report.odeh = "null"
       /\ rep.report.bestTimeUTC = Null
       /\ rep.report.bestTimeWindowUTC = <<>>
       /\ rep.report.sightingPossible = FALSE
       /\ rep.report.ephemerisSource = "DE442S"

\* a report was returned for a date with a moonset and no sunset
C3_Witness ==
    /\ rep.outcome = "returned"
    /\ rq.sunsetUTC = Null
    /\ rq.moonsetUTC # Null

\* C4 as stated: when the event search yields a null sunset or a null
\* moonset, the guidance field of the report is null.
C4_GuidanceNull ==
    (rep.outcome = "returned" /\ NullEvents) => rep.report.guidance = "null"

\* C4 amended: when the event search yields a null sunset or a null
\* moonset, the guidance field of the report is the fixed message
\* "Sighting not possible: ...", never null.
C4_GuidanceMessage ==
    (rep.outcome = "returned" /\ NullEvents) =>
       rep.report.guidance = NotPossibleGuidance

\* a report was returned for a date with a sunset and no moonset
C4_Witness ==
    /\ rep.outcome = "returned"
    /\ rq.sunsetUTC # Null
    /\ rq.moonsetUTC = Null

----------------------------------------------------------------------------
(* Part 3: findAltitudeCrossing and getSunMoonEvents *)

\* the seven events of getSunMoonEvents: each is one findAltitudeCrossing
\* call over the same window, for a body, a threshold and a direction
Events == {"sunrise", "sunset", "civilTwilightEnd", "nauticalTwilightEnd",
           "astronomicalTwilightEnd", "moonrise", "moonset"}

\* the `rising` argument of the event's call
Rising(e) == e \in {"sunrise", "moonrise"}

\* brentRoot(f, a, b, tol) on a bracket of the coarse sampling.  Only the
\* sign of f is kept (f is +1 or -1), and on such an f both the secant step
\* and the bisection step are the midpoint, |fa| = |fb| never swaps, and
\* the search ends on b when the bracket is down to the tolerance, one tick.
RECURSIVE BrentLoop(_, _, _, _)
BrentLoop(f, a, b, iter) ==
    IF iter = 0 \/ b - a <= 1 THEN b
    ELSE LET s == (a + b) \div 2 IN
         IF f[a] * f[s] < 0
         THEN BrentLoop(f, a, s, iter - 1)
         ELSE BrentLoop(f, s, b, iter - 1)

\* maxIter of brentRoot
MaxIter == 64

brentRoot(f, a, b) ==
    IF f[a] * f[b] > 0 THEN Null ELSE BrentLoop(f, a, b, MaxIter)

\* Math.ceil((endET - startET) / STEP_S)
NSteps == (WindowTicks + StepTicks - 1) \div StepTicks

\* currET of step i: Math.min(startET + i * STEP_S, endET)
SampleET(i) == IF i * StepTicks < WindowTicks THEN i * StepTicks ELSE WindowTicks

\* the loop of findAltitudeCrossing from step i on
RECURSIVE CrossingFrom(_, _, _)
CrossingFrom(f, rising, i) ==
    IF i > NSteps THEN Null
    ELSE LET prevET == SampleET(i - 1)
             currET == SampleET(i)
             isRisingCross == rising /\ f[prevET] < 0 /\ f[currET] >= 0
             isSettingCross == ~rising /\ f[prevET] >= 0 /\ f[currET] < 0
             etCross == IF isRisingCross \/ isSettingCross
                        THEN brentRoot(f, prevET, currET) ELSE Null
         IN IF etCross # Null THEN etCross
            ELSE CrossingFrom(f, rising, i + 1)

findAltitudeCrossing(f, rising) == CrossingFrom(f, rising, 1)

\* an altitude curve is asked for one of its events
EInit ==
    /\ KIdle /\ RIdle /\ BIdle /\ FIdle
    /\ falt \in [0..WindowTicks -> {-1, 1}]
    /\ event = NoEvent

\* getSunMoonEvents computes the event
FindEvent ==
    /\ event = NoEvent
    /\ \E e \in Events :
          event' = [name |-> e, at |-> findAltitudeCrossing(falt, Rising(e))]
    /\ UNCHANGED <<falt, kvars, rvars, bvars, fvars>>

ENext == FindEvent

SpecEvents == EInit /\ [][ENext]_vars

\* the altitude crosses the threshold in the given direction between tick
\* t - 1 and tick t
CrossesAt(t, rising) ==
    IF rising THEN falt[t - 1] < 0 /\ falt[t] >= 0
    ELSE falt[t - 1] >= 0 /\ falt[t] < 0

\* C8: the instant returned for an event is the first crossing in the
\* window: no earlier instant of the window has the altitude crossing the
\* threshold in the event's direction.
C8_FirstCrossing ==
    (event.name # "none" /\ event.at # Null) =>
       \A t \in 1..WindowTicks :
          CrossesAt(t, Rising(event.name)) => event.at <= t

\* C9: findAltitudeCrossing returns null if and only if the altitude has no
\* crossing in the requested direction anywhere in the window.
C9_NullIffNoCrossing ==
    event.name # "none" =>
       (event.at = Null <=>
           ~ \E t \in 1..WindowTicks : CrossesAt(t, Rising(event.name)))

----------------------------------------------------------------------------
(* Part 4: bestTimeHeuristic *)

\* sunset and moonset instants, in milliseconds before or after the epoch
Instants == (-MaxMs)..MaxMs

BInit ==
    /\ KIdle /\ RIdle /\ EIdle /\ FIdle
    /\ sunset \in Instants
    /\ moonset \in Instants
    /\ best = NotRun

BestTimeHeuristic ==
    /\ best = NotRun
    /\ best' = bestTimeHeuristic(sunset, moonset)
    /\ UNCHANGED <<sunset, moonset, kvars, rvars, evars, fvars>>

BNext == BestTimeHeuristic

SpecBest == BInit /\ [][BNext]_vars

\* the result is T_sunset + (4/9) lag to the millisecond
IsFourNinths ==
    LET exact9 == 9 * sunset + 4 * (moonset - sunset)
    IN  /\ 9 * best.bestTimeUTC > exact9 - 9
        /\ 9 * best.bestTimeUTC < exact9 + 9

\* C10 as stated: no result exactly when moonset is not later than sunset;
\* otherwise T_b = T_sunset + (4/9)(T_moonset - T_sunset), strictly between
\* sunset and moonset, with lagMinutes strictly positive.
C10_StrictlyBetween ==
    best # NotRun =>
       /\ best = NoResult <=> moonset <= sunset
       /\ best # NoResult =>
             /\ IsFourNinths
             /\ sunset < best.bestTimeUTC /\ best.bestTimeUTC < moonset
             /\ best.lagMinutes[1] > 0

\* C10 amended: no result exactly when moonset is not later than sunset;
\* otherwise T_b is T_sunset + (4/9) lag cut to a whole millisecond toward
\* zero, so sunset <= T_b <= moonset, strictly between once the lag is 3 ms
\* or more, with lagMinutes = lag / 60000 strictly positive.
C10_BetweenInclusive ==
    best # NotRun =>
       /\ best = NoResult <=> moonset <= sunset
       /\ best # NoResult =>
             /\ best.bestTimeUTC = NewDate(9 * sunset + 4 * (moonset - sunset), 9)
             /\ IsFourNinths
             /\ sunset <= best.bestTimeUTC /\ best.bestTimeUTC <= moonset
             /\ moonset - sunset >= 3 =>
                   (sunset < best.bestTimeUTC /\ best.bestTimeUTC < moonset)
             /\ best.lagMinutes = <<moonset - sunset, 60000>>
             /\ best.lagMinutes[1] > 0

\* moonset one millisecond after sunset: the best time is sunset itself
C10_Witness ==
    /\ best # NotRun /\ best # NoResult
    /\ moonset = sunset + 1
    /\ best.bestTimeUTC = sunset

----------------------------------------------------------------------------
(* Part 5: pure functions *)

\* a function returned v
Value(v) == [applied |-> TRUE, threw |-> "none", value |-> v]

\* a function threw
Thrown(error) == [applied |-> TRUE, threw |-> error, value |-> <<>>]

(* bestTimeOptimized *)

ScanInstants == (-MaxScanMs)..MaxScanMs

\* the Odeh V the scan computes at an instant, as a level
VLevels == {0, 1}

\* let maxV = -Infinity: below every V
NegInfinity == -1

\* const t = new Date(sunsetUTC.getTime() + (lagMs * i) / steps)
ScanInstant(sunsetUTC, lagMs, i) ==
    NewDate(ScanSteps * sunsetUTC + lagMs * i, ScanSteps)

\* if (V > maxV)
Better_smaller(V, maxV) == V < maxV

Better(V, maxV) == V > maxV

\* for (let i = 0; i <= steps; i++) { ... }, from step i on
RECURSIVE ScanFrom(_, _, _, _, _, _)
ScanFrom(V, sunsetUTC, lagMs, i, bestTimeUTC, maxV) ==
    IF i > ScanSteps THEN [bestTimeUTC |-> bestTimeUTC, maxV |-> maxV]
    ELSE LET t == ScanInstant(sunsetUTC, lagMs, i) IN
         IF Better(V[t], maxV)
         THEN ScanFrom(V, sunsetUTC, lagMs, i + 1, t, V[t])
         ELSE ScanFrom(V, sunsetUTC, lagMs, i + 1, bestTimeUTC, maxV)

\* bestTimeOptimized(sunsetUTC, moonsetUTC, kernel, observer) with V the
\* Odeh V of kernel and observer at each instant; `evaluated` lists the
\* instants V was computed at, by step
bestTimeOptimizedScan(V, sunsetUTC, moonsetUTC) ==
    LET lagMs == moonsetUTC - sunsetUTC IN
    IF lagMs <= 0
    THEN [bestTimeUTC |-> Null, lagMinutes |-> <<>>, maxV |-> NegInfinity,
          evaluated |-> <<>>]
    ELSE LET r == ScanFrom(V, sunsetUTC, lagMs, 0, sunsetUTC, NegInfinity) IN
         [bestTimeUTC |-> r.bestTimeUTC, lagMinutes |-> <<lagMs, 60000>>,
          maxV |-> r.maxV,
          evaluated |-> [i \in 0..ScanSteps |-> ScanInstant(sunsetUTC, lagMs, i)]]

ScanInputs ==
    [sunsetUTC : ScanInstants, moonsetUTC : ScanInstants,
     V : [ScanInstants -> VLevels]]

ApplyBestTimeOptimized ==
    /\ fn = "bestTimeOptimized" /\ out = NotApplied
    /\ out' = Value(bestTimeOptimizedScan(arg.V, arg.sunsetUTC, arg.moonsetUTC))
    /\ UNCHANGED <<fn, arg, kvars, rvars, evars, bvars>>

ScanDone == fn = "bestTimeOptimized" /\ out.applied

YALLOP_THRESHOLDS == [A |-> 216, B |-> -14, C |-> -160, D |-> -232, E |-> -293]

QValues == (-MaxQMilli)..MaxQMilli

yallopCategory_inclusive(q) ==
    IF q >= YALLOP_THRESHOLDS.A THEN "A"
    ELSE IF q >= YALLOP_THRESHOLDS.B THEN "B"
    ELSE IF q >= YALLOP_THRESHOLDS.C THEN "C"
    ELSE IF q >= YALLOP_THRESHOLDS.D THEN "D"
    ELSE IF q >= YALLOP_THRESHOLDS.E THEN "E"
    ELSE "F"

yallopCategory(q) ==
    IF q > YALLOP_THRESHOLDS.A THEN "A"
    ELSE IF q > YALLOP_THRESHOLDS.B THEN "B"
    ELSE IF q > YALLOP_THRESHOLDS.C THEN "C"
    ELSE IF q > YALLOP_THRESHOLDS.D THEN "D"
    ELSE IF q > YALLOP_THRESHOLDS.E THEN "E"
    ELSE "F"

ApplyYallopCategory ==
    /\ fn = "yallopCategory" /\ out = NotApplied
    /\ out' = Value(yallopCategory(arg))
    /\ UNCHANGED <<fn, arg, kvars, rvars, evars, bvars>>

\* C12: yallopCategory is total and every band has a strict lower bound:
\* A iff q > 0.216, B iff -0.014 < q <= 0.216, C iff -0.160 < q <= -0.014,
\* D iff -0.232 < q <= -0.160, E iff -0.293 < q <= -0.232, F iff q <= -0.293.
C12_YallopBands ==
    (fn = "yallopCategory" /\ out.applied) =>
        /\ out.threw = "none"
        /\ out.value \in {"A", "B", "C", "D", "E", "F"}
        /\ out.value = "A" <=> arg > 216
        /\ out.value = "B" <=> (-14 < arg /\ arg <= 216)
        /\ out.value = "C" <=> (-160 < arg /\ arg <= -14)
        /\ out.value = "D" <=> (-232 < arg /\ arg <= -160)
        /\ out.value = "E" <=> (-293 < arg /\ arg <= -232)
        /\ out.value = "F" <=> arg <= -293

\* A value exactly on a threshold falls into the band below it.
C12_Witness ==
    fn = "yallopCategory" /\ out.applied /\ arg = -293 /\ out.value = "F"

\* The V thresholds, in hundredths.
ODEH_THRESHOLDS == [A |-> 565, B |-> 200, C |-> -96]

VValues == (-MaxVCenti)..MaxVCenti

odehZone_strict(V) ==
    IF V > ODEH_THRESHOLDS.A THEN "A"
    ELSE IF V > ODEH_THRESHOLDS.B THEN "B"
    ELSE IF V > ODEH_THRESHOLDS.C THEN "C"
    ELSE "D"

odehZone(V) ==
    IF V >= ODEH_THRESHOLDS.A THEN "A"
    ELSE IF V >= ODEH_THRESHOLDS.B THEN "B"
    ELSE IF V >= ODEH_THRESHOLDS.C THEN "C"
    ELSE "D"

ApplyOdehZone ==
    /\ fn = "odehZone" /\ out = NotApplied
    /\ out' = Value(odehZone(arg))
    /\ UNCHANGED <<fn, arg, kvars, rvars, evars, bvars>>

\* C13: odehZone is total and every band has an inclusive lower bound:
\* A iff V >= 5.65, B iff 2.00 <= V < 5.65, C iff -0.96 <= V < 2.00,
\* D iff V < -0.96.
C13_OdehBands ==
    (fn = "odehZone" /\ out.applied) =>
        /\ out.threw = "none"
        /\ out.value \in {"A", "B", "C", "D"}
        /\ out.value = "A" <=> arg >= 565
        /\ out.value = "B" <=> (200 <= arg /\ arg < 565)
        /\ out.value = "C" <=> (-96 <= arg /\ arg < 200)
        /\ out.value = "D" <=> arg < -96

\* A value exactly on a threshold falls into the band above it.
C13_Witness ==
    fn = "odehZone" /\ out.applied /\ arg = -96 /\ out.value = "C"

(***************************************************************************)
(* The visibility polynomial.  ARCV is drawn in whole degrees and W in     *)
(* tenths of an arc-minute; with four-decimal coefficients every value of  *)
(* the polynomial is then a whole number of 10^-7 degrees, the unit of     *)
(* arcvMinimum and of V below.  q = V / 10 is the same whole number read   *)
(* in units of 10^-8.                                                      *)
(***************************************************************************)

Geometries == [ARCV : (-2)..MaxArcvDeg, W : 0..MaxWDeci]

arcvMinimum_flat(W) == 118371000

arcvMinimum(W) ==
    118371000 - 6322600 * W + 73190 * W * W - 1018 * W * W * W

\* in units of 10^-8
computeYallopQ(ARCV, Wprime) == ARCV * 10000000 - arcvMinimum(Wprime)

\* in units of 10^-7
computeOdehV(ARCV, W) == ARCV * 10000000 - arcvMinimum(W)

\* The part of getMoonVisibilityEstimate that follows the geometry: ARCV
\* and W stand for the values computed from the date and the observer.
getMoonVisibilityEstimate(ARCV, W) ==
    LET arcvMin == -1018 * W * W * W + 73190 * W * W - 6322600 * W + 71651000
        V == ARCV * 10000000 - arcvMin
        zone == IF V >= ODEH_THRESHOLDS.A * 100000 THEN "A"
                ELSE IF V >= ODEH_THRESHOLDS.B * 100000 THEN "B"
                ELSE IF V >= ODEH_THRESHOLDS.C * 100000 THEN "C"
                ELSE "D"
    IN  [V |-> V, zone |-> zone, isVisibleNakedEye |-> zone = "A",
         isVisibleWithOpticalAid |-> zone \in {"A", "B"},
         ARCV |-> ARCV, W |-> W, isApproximate |-> TRUE]

ApplyComputeYallopQ ==
    /\ fn = "computeYallopQ" /\ out = NotApplied
    /\ out' = Value(computeYallopQ(arg.ARCV, arg.W))
    /\ UNCHANGED <<fn, arg, kvars, rvars, evars, bvars>>

ApplyComputeOdehV ==
    /\ fn = "computeOdehV" /\ out = NotApplied
    /\ out' = Value(computeOdehV(arg.ARCV, arg.W))
    /\ UNCHANGED <<fn, arg, kvars, rvars, evars, bvars>>

ApplyGetMoonVisibilityEstimate ==
    /\ fn = "getMoonVisibilityEstimate" /\ out = NotApplied
    /\ out' = Value(getMoonVisibilityEstimate(arg.ARCV, arg.W))
    /\ UNCHANGED <<fn, arg, kvars, rvars, evars, bvars>>

\* C14: the V returned by getMoonVisibilityEstimate equals
\* computeOdehV(ARCV, W), i.e. ARCV - arcv_min(W) with the shared polynomial
\* 11.8371 - 6.3226 W + 0.7319 W^2 - 0.1018 W^3, for the ARCV and W it
\* reports, and its zone is odehZone of that V.
C14_EstimateIsOdehV ==
    (fn = "getMoonVisibilityEstimate" /\ out.applied) =>
        /\ out.value.V = computeOdehV(out.value.ARCV, out.value.W)
        /\ out.value.zone =
               odehZone(computeOdehV(out.value.ARCV, out.value.W) \div 100000)

\* C15: for a fixed ARCV, q and V both decrease as W increases beyond 3.1
\* arc-minutes: W2 > W1 >= 3.1 implies q(ARCV, W2) < q(ARCV, W1) and
\* V(ARCV, W2) < V(ARCV, W1).
C15_DecreaseBeyondWStar ==
    /\ (fn = "computeYallopQ" /\ out.applied /\ arg.W >= 31) =>
           \A W2 \in 0..MaxWDeci :
               W2 > arg.W => computeYallopQ(arg.ARCV, W2) < out.value
    /\ (fn = "computeOdehV" /\ out.applied /\ arg.W >= 31) =>
           \A W2 \in 0..MaxWDeci :
               W2 > arg.W => computeOdehV(arg.ARCV, W2) < out.value

\* C15, as the code has it: for a fixed ARCV, q and V both strictly increase
\* as W increases, for every W2 > W1 >= 0 and so also beyond 3.1 arc-minutes.
C15_IncreaseWithW ==
    /\ (fn = "computeYallopQ" /\ out.applied) =>
           \A W2 \in 0..MaxWDeci :
               W2 > arg.W => computeYallopQ(arg.ARCV, W2) > out.value
    /\ (fn = "computeOdehV" /\ out.applied) =>
           \A W2 \in 0..MaxWDeci :
               W2 > arg.W => computeOdehV(arg.ARCV, W2) > out.value

C15_Witness ==
    /\ fn = "computeOdehV" /\ out.applied /\ arg.W >= 31
    /\ \E W2 \in 0..MaxWDeci :
           W2 > arg.W /\ computeOdehV(arg.ARCV, W2) > out.value

(***************************************************************************)
(* SpkKernel.getState.  A kernel is the set of segments its index holds;   *)
(* no two segments of the pool are for the same pair, so the order of the  *)
(* index lists plays no part.  ET is counted in units of one record        *)
(* radius; state vectors carry one component of position and of velocity,  *)
(* every operation on them being componentwise.                            *)
(***************************************************************************)

NAIF_IDS ==
    [SSB |-> 0, EMB |-> 3, MARS_BARYCENTER |-> 4, SUN |-> 10, MOON |-> 301,
     EARTH |-> 399]

\* A type 2 segment of n records, each two units long, starting at ET 0,
\* whose record r holds the Chebyshev coefficients <<4 k (r + 1), k>>.
SpkSegment(target, center, n, k) ==
    [target |-> target, center |-> center, startET |-> 0, endET |-> 2 * n,
     N |-> n, k |-> k]

SegmentPool ==
    { SpkSegment(NAIF_IDS.MOON, NAIF_IDS.EMB, MaxRecords, 1),
      SpkSegment(NAIF_IDS.EARTH, NAIF_IDS.EMB, MaxRecords, 2),
      SpkSegment(NAIF_IDS.SUN, NAIF_IDS.SSB, MaxRecords, 4),
      SpkSegment(NAIF_IDS.EMB, NAIF_IDS.SSB, MaxRecords, 8),
      SpkSegment(NAIF_IDS.MARS_BARYCENTER, NAIF_IDS.SSB, MaxRecords, 16),
      SpkSegment(NAIF_IDS.EARTH, NAIF_IDS.SSB, MaxRecords, 32),
      SpkSegment(NAIF_IDS.MOON, NAIF_IDS.EARTH, 1, 64) }

EphemerisTimes == (-1)..(2 * MaxRecords + 1)

NoSegment == SpkSegment(-1, -1, 0, 0)

findSeg(kernel, target, center, et) ==
    LET candidates == {s \in kernel : s.target = target /\ s.center = center}
        found == {s \in candidates : et >= s.startET /\ et <= s.endET}
    IN  IF found = {} THEN NoSegment ELSE CHOOSE s \in found : TRUE

\* evaluateSegment, for a type 2 segment: init = startET, intlen = 2,
\* mid = init + 2 recIdx + 1, radius = 1, two coefficients per component
evaluateType2(seg, et) ==
    LET init == seg.startET
        raw == (et - init) \div 2
        recIdx == IF raw > seg.N - 1
                  THEN (IF seg.N - 1 < 0 THEN 0 ELSE seg.N - 1)
                  ELSE (IF raw < 0 THEN 0 ELSE raw)
        mid == init + 2 * recIdx + 1
        x == et - mid
        c0 == 4 * seg.k * (recIdx + 1)
        c1 == seg.k
    IN  [position |-> c0 + x * c1, velocity |-> c1]

subtractSV_swapped(a, b) ==
    [position |-> b.position - a.position, velocity |-> b.velocity - a.velocity]

subtractSV(a, b) ==
    [position |-> a.position - b.position, velocity |-> a.velocity - b.velocity]

NoPath == "SpkKernel: no path"

getChained(kernel, target, center, et) ==
    LET ssb == NAIF_IDS.SSB
        emb == NAIF_IDS.EMB
        F(t, c) == findSeg(kernel, t, c, et)
        Has(t, c) == F(t, c) # NoSegment
        E(t, c) == evaluateType2(F(t, c), et)
    IN  IF /\ target = NAIF_IDS.MOON /\ center = NAIF_IDS.EARTH
           /\ Has(NAIF_IDS.MOON, emb) /\ Has(NAIF_IDS.EARTH, emb)
        THEN Value(subtractSV(E(NAIF_IDS.MOON, emb), E(NAIF_IDS.EARTH, emb)))
        ELSE IF /\ target = NAIF_IDS.EARTH /\ center = NAIF_IDS.MOON
                /\ Has(NAIF_IDS.EARTH, emb) /\ Has(NAIF_IDS.MOON, emb)
        THEN Value(subtractSV(E(NAIF_IDS.EARTH, emb), E(NAIF_IDS.MOON, emb)))
        ELSE IF /\ target = NAIF_IDS.SUN /\ center = NAIF_IDS.EARTH
                /\ Has(NAIF_IDS.SUN, ssb) /\ Has(emb, ssb)
                /\ Has(NAIF_IDS.EARTH, emb)
        THEN Value(subtractSV(E(NAIF_IDS.SUN, ssb),
                              subtractSV(E(emb, ssb), E(NAIF_IDS.EARTH, emb))))
        ELSE IF Has(target, ssb) /\ Has(center, ssb)
        THEN Value(subtractSV(E(target, ssb), E(center, ssb)))
        ELSE Thrown(NoPath)

getState(kernel, target, center, et) ==
    LET direct == findSeg(kernel, target, center, et)
    IN  IF direct # NoSegment THEN Value(evaluateType2(direct, et))
        ELSE getChained(kernel, target, center, et)

StateRequests ==
    [kernel : SUBSET SegmentPool,
     pair : { <<NAIF_IDS.MOON, NAIF_IDS.EARTH>>, <<NAIF_IDS.EARTH, NAIF_IDS.MOON>>,
              <<NAIF_IDS.SUN, NAIF_IDS.EARTH>>,
              <<NAIF_IDS.MARS_BARYCENTER, NAIF_IDS.EARTH>>,
              <<NAIF_IDS.MARS_BARYCENTER, NAIF_IDS.SUN>>,
              <<NAIF_IDS.MOON, NAIF_IDS.EMB>> },
     et : EphemerisTimes]

ApplyGetState ==
    /\ fn = "getState" /\ out = NotApplied
    /\ out' = getState(arg.kernel, arg.pair[1], arg.pair[2], arg.et)
    /\ UNCHANGED <<fn, arg, kvars, rvars, evars, bvars>>

GetStateDone == fn = "getState" /\ out.applied

\* C16: a getState request whose et lies outside [startET, endET] of every
\* segment that matches the pair fails with an error that differs from the
\* one raised when the kernel holds no segment path for the pair at all,
\* and returns no state.
C16_OutOfRangeDistinct ==
    (/\ GetStateDone
     /\ \E e \in EphemerisTimes :
            getState(arg.kernel, arg.pair[1], arg.pair[2], e).threw = "none"
     /\ \A s \in arg.kernel : arg.et < s.startET \/ arg.et > s.endET)
    => /\ out.threw # "none"
       /\ out.threw # getState({}, arg.pair[1], arg.pair[2], arg.et).threw

DAF_RECORD_SIZE == 1024

\* record numbers a pointer can hold: none, the file record, the two
\* records that follow it, and one beyond the end of the buffer
RecordNumbers == 0..4

DafBuffers ==
    [magic : {"DAF/SPK ", "not a DAF"},
     ndLow : {0, 2, 101}, ndHigh : {0, 2, 101},
     fward : RecordNumbers,
     control : [{2, 3} -> [next : RecordNumbers, nSummaries : 0..1]]]

byteLength == 3 * DAF_RECORD_SIZE

\* dv.getInt32(8, littleEndian) over the bytes <<ndLow, 0, 0, ndHigh>>
GetInt32(low, high, littleEndian) ==
    IF littleEndian THEN low + 16777216 * high ELSE high + 16777216 * low

parseDafFileRecord(buffer) ==
    LET little == GetInt32(buffer.ndLow, buffer.ndHigh, TRUE)
        le == ~(little < 1 \/ little > 100)
        nd == IF le THEN little
              ELSE GetInt32(buffer.ndLow, buffer.ndHigh, FALSE)
    IN  Value([nd |-> nd, ni |-> 6, fward |-> buffer.fward, le |-> le])

\* The while loop of parseSummaryRecords from record recordNum on, having
\* pushed `segments` summaries; `visited` are the records already read.  A
\* record number past the buffer makes getFloat64 throw a RangeError; the
\* file record read as a summary record has the zero bytes of its reserved
\* area as a control area; a chain that comes back to a record never ends.
RECURSIVE SummaryLoop(_, _, _, _, _, _)
SummaryLoop(buffer, recordNum, nd, ni, segments, visited) ==
    IF recordNum = 0 THEN Value(segments)
    ELSE IF recordNum \in visited THEN Thrown("never returns")
    ELSE LET recOffset == (recordNum - 1) * DAF_RECORD_SIZE
         IN  IF recOffset + 24 > byteLength
             THEN Thrown("RangeError: Offset is outside the bounds of the DataView")
             ELSE LET ctl == IF recordNum = 1
                             THEN [next |-> 0, nSummaries |-> 0]
                             ELSE buffer.control[recordNum]
                      \* offset + summaryBytes > buffer.byteLength breaks the
                      \* loop; summaryBytes = nd * 8 + ni * 4 in doubles
                      fits == /\ nd <= byteLength
                              /\ recOffset + 24 + nd * 8 + ni * 4 <= byteLength
                      pushed == IF fits THEN ctl.nSummaries ELSE 0
                  IN  SummaryLoop(buffer, ctl.next, nd, ni,
                                  segments + pushed, visited \cup {recordNum})

parseSummaryRecords(buffer, fward, nd, ni) ==
    SummaryLoop(buffer, fward, nd, ni, 0, {})

\* The kernel object is the number of segments of its index here.
fromBuffer(buffer) ==
    LET rec == parseDafFileRecord(buffer)
    IN  IF rec.threw # "none" THEN rec
        ELSE parseSummaryRecords(buffer, rec.value.fward, rec.value.nd,
                                 rec.value.ni)

ApplyFromBuffer ==
    /\ fn = "fromBuffer" /\ out = NotApplied
    /\ out' = fromBuffer(arg)
    /\ UNCHANGED <<fn, arg, kvars, rvars, evars, bvars>>

\* C17: SpkKernel.fromBuffer fails with a parse error for every buffer whose
\* magic is not a DAF/SPK magic, whose ND is outside [1,100] in both byte
\* orders, or whose summary-record chain leaves the summary records of the
\* buffer; no such buffer yields a kernel.
C17_RejectsMalformed ==
    LET ndLE == arg.ndLow + 16777216 * arg.ndHigh
        ndBE == arg.ndHigh + 16777216 * arg.ndLow
        InChain == {arg.fward} \cup
                   {arg.control[r].next : r \in {arg.fward} \cap {2, 3}} \cup
                   {arg.control[arg.control[r].next].next :
                        r \in {s \in {arg.fward} \cap {2, 3} :
                                   arg.control[s].next \in {2, 3}}}
    IN  (/\ fn = "fromBuffer" /\ out.applied
         /\ \/ arg.magic # "DAF/SPK "
            \/ (ndLE \notin 1..100 /\ ndBE \notin 1..100)
            \/ InChain \cap {1, 4} # {})
        => out.threw \notin {"none", "never returns"}

(***************************************************************************)
(* getMoonPhase: the new moons around a date.  Julian dates are counted    *)
(* from J2000 in hundredths of a day; TT - UTC (69 s) and the millisecond  *)
(* of a Date are below that unit, so a Date and ts.jdTT are one number.    *)
(***************************************************************************)

PhaseDates == (-MaxCentiDays)..MaxCentiDays

\* The sum of the periodic terms of Table 49.A that nearestNewMoon adds to
\* the mean new moon of lunation k, for the lunations around J2000.
PeriodicTerms(k) ==
    CASE k = -3 -> -52 [] k = -2 -> -37 [] k = -1 -> -13 [] k = 0 -> 16
      [] k = 1 -> 42 [] k = 2 -> 56 [] k = 3 -> 57

\* k = Math.round((Y - 2000.0) * 12.3685) with Y - 2000 = jd / 365.25 days,
\* Math.round(x) being floor(x + 1/2); JDE = 2451550.09766 + 29.530588861 k
\* (the powers of T are below the unit) plus the periodic terms.
nearestNewMoon(jdTT) ==
    LET k == (2 * 123685 * jdTT + 365250000) \div (2 * 365250000)
    IN  510 + (2953059 * k + 500) \div 1000 + PeriodicTerms(k)

\* fullMoonJDE(k) for the half-integer k = h / 2, h odd: the mean phase
\* 2451550.09766 + 29.530588861 k rounded to the unit, plus the sum of the
\* periodic terms of the full-moon column of Table 49.A.
fullMoonJDE(h) ==
    (1019532 + 2953059 * h + 1000) \div 2000
        + CASE h = -5 -> 11 [] h = -3 -> -1 [] h = -1 -> -10 [] h = 1 -> -17
            [] h = 3 -> -21 [] h = 5 -> -23

\* k1 = kBase - 0.5 and k2 = kBase + 0.5 are h = 2 kBase - 1 and 2 kBase + 1.
\* On the one date per lunation where the two distances are equal in this
\* unit the later full moon is taken.
nearestFullMoon(jdTT) ==
    LET kBase == (2 * 123685 * jdTT + 365250000) \div (2 * 365250000)
        jde1 == fullMoonJDE(2 * kBase - 1)
        jde2 == fullMoonJDE(2 * kBase + 1)
        d1 == IF jde1 - jdTT < 0 THEN jdTT - jde1 ELSE jde1 - jdTT
        d2 == IF jde2 - jdTT < 0 THEN jdTT - jde2 ELSE jde2 - jdTT
    IN  IF d1 < d2 THEN jde1 ELSE jde2

\* The fields of MoonPhaseResult that depend on the lunar phases; age in
\* hundredths of an hour.
getMoonPhase(date) ==
    LET jdTT == date
        prevNewMoonJD == nearestNewMoon(jdTT - 1500)
        age == (jdTT - prevNewMoonJD) * 24
        nextNewMoonJD == nearestNewMoon(jdTT + 1500)
        nextFullMoonJD == nearestFullMoon(jdTT)
    IN  [age |-> age, nextNewMoon |-> nextNewMoonJD,
         nextFullMoon |-> nextFullMoonJD, prevNewMoon |-> prevNewMoonJD]

ApplyGetMoonPhase ==
    /\ fn = "getMoonPhase" /\ out = NotApplied
    /\ out' = Value(getMoonPhase(arg))
    /\ UNCHANGED <<fn, arg, kvars, rvars, evars, bvars>>

\* C19: for every date, nextNewMoon - prevNewMoon of getMoonPhase lies
\* within [29.0, 30.1] days.
C19_SynodicMonth ==
    (fn = "getMoonPhase" /\ out.applied) =>
        /\ out.value.nextNewMoon - out.value.prevNewMoon >= 2900
        /\ out.value.nextNewMoon - out.value.prevNewMoon <= 3010

\* C20: for every date d, getMoonPhase(d) returns prevNewMoon earlier than
\* d and nextNewMoon later than d, and age is never negative.
C20_AroundDate ==
    (fn = "getMoonPhase" /\ out.applied) =>
        /\ out.value.prevNewMoon < arg
        /\ out.value.nextNewMoon > arg
        /\ out.value.age >= 0

\* C21: for every date d, the nextFullMoon of getMoonPhase(d) is not earlier
\* than d, and no full moon lies between d and it.
C21_NextFullMoon ==
    (fn = "getMoonPhase" /\ out.applied) =>
        /\ out.value.nextFullMoon >= arg
        /\ \A h \in {-5, -3, -1, 1, 3, 5} :
               ~(arg <= fullMoonJDE(h) /\ fullMoonJDE(h) < out.value.nextFullMoon)

(***************************************************************************)
(* computeTimeScales.  Julian dates are counted in microseconds from       *)
(* 2006-01-01T00:00:00 UTC (JD 2453736.5), the leap second that takes      *)
(* TAI - UTC from 32 s to 33 s; overrides and deltaT are in microseconds.  *)
(* An optional argument is the empty set when undefined and {v} when it    *)
(* is the number v.                                                        *)
(***************************************************************************)

TimeScaleInputs ==
    [utc : {1000 * ms : ms \in (-MaxUtcMs)..MaxUtcMs},
     ut1utc : {{}, {0}, {-300000}, {450000}},
     deltaT : {{}, {0}, {65054224}, {69184000}}]

computeTimeScales_deltaTFirst(utc, ut1utcOverride, deltaTOverride) ==
    LET deltaAT == IF utc >= 0 THEN 33 ELSE 32
        jdTT == utc + deltaAT * 1000000 + 32184000
    IN  IF deltaTOverride # {}
        THEN [utc |-> utc, jdUTC |-> utc, jdTT |-> jdTT, jdTDB |-> jdTT - 74,
              jdUT1 |-> jdTT - (CHOOSE v \in deltaTOverride : TRUE),
              deltaT |-> CHOOSE v \in deltaTOverride : TRUE,
              deltaAT |-> deltaAT]
        ELSE [utc |-> utc, jdUTC |-> utc, jdTT |-> jdTT, jdTDB |-> jdTT - 74,
              jdUT1 |-> jdTT - 65054224, deltaT |-> 65054224,
              deltaAT |-> deltaAT]

computeTimeScales(utc, ut1utcOverride, deltaTOverride) ==
    LET jdUTC == utc
        \* getDeltaAT: the rows [2451179.5, 32] and [2453736.5, 33]
        deltaAT == IF jdUTC >= 0 THEN 33 ELSE 32
        jdTAI == jdUTC + deltaAT * 1000000
        jdTT == jdTAI + 32184000
        \* tdbMinusTT at this epoch: 0.001658 sin g + 0.000014 sin 2g
        tdbCorrection == -74
        jdTDB == jdTT + tdbCorrection
        \* deltaTPolynomial at y = 2006: 62.92 + 0.32217 t + 0.005589 t^2
        deltaTPolynomial == 65054224
        jdUT1 == IF ut1utcOverride # {}
                 THEN jdUTC + (CHOOSE v \in ut1utcOverride : TRUE)
                 ELSE IF deltaTOverride # {}
                 THEN jdTT - (CHOOSE v \in deltaTOverride : TRUE)
                 ELSE jdTT - deltaTPolynomial
        deltaT == IF ut1utcOverride # {} THEN jdTT - jdUT1
                  ELSE IF deltaTOverride # {}
                  THEN CHOOSE v \in deltaTOverride : TRUE
                  ELSE deltaTPolynomial
    IN  [utc |-> utc, jdUTC |-> jdUTC, jdTT |-> jdTT, jdTDB |-> jdTDB,
         jdUT1 |-> jdUT1, deltaT |-> deltaT, deltaAT |-> deltaAT]

ApplyComputeTimeScales ==
    /\ fn = "computeTimeScales" /\ out = NotApplied
    /\ out' = Value(computeTimeScales(arg.utc, arg.ut1utc, arg.deltaT))
    /\ UNCHANGED <<fn, arg, kvars, rvars, evars, bvars>>

AzAlts == [azimuth : {10 * a : a \in 0..35}, altitude : {-5, 5}]

computeCrescentGeometry(moonAirlessAzAlt, sunAirlessAzAlt) ==
    LET ARCV == moonAirlessAzAlt.altitude - sunAirlessAzAlt.altitude
        DAZ0 == sunAirlessAzAlt.azimuth - moonAirlessAzAlt.azimuth
        DAZ1 == IF DAZ0 > 180 THEN DAZ0 - 360 ELSE DAZ0
        DAZ == IF DAZ1 < -180 THEN DAZ1 + 360 ELSE DAZ1
    IN  [ARCV |-> ARCV, DAZ |-> DAZ]

ApplyComputeCrescentGeometry ==
    /\ fn = "computeCrescentGeometry" /\ out = NotApplied
    /\ out' = Value(computeCrescentGeometry(arg.moon, arg.sun))
    /\ UNCHANGED <<fn, arg, kvars, rvars, evars, bvars>>

\* C23: for azimuths in [0, 360), DAZ is (Sun azimuth - Moon azimuth) reduced
\* modulo 360 into (-180, 180]: never -180 and never outside the interval.
C23_DazHalfOpen ==
    (fn = "computeCrescentGeometry" /\ out.applied) =>
        /\ out.value.DAZ > -180 /\ out.value.DAZ <= 180
        /\ (out.value.DAZ - (arg.sun.azimuth - arg.moon.azimuth)) % 360 = 0

(***************************************************************************)
(* getMoonIllumination: the phase fraction, in units of 1/360, from what   *)
(* computeIllumination derives from the two position vectors: the          *)
(* elongation in whole degrees and the sign of crossZ.  Parallel and       *)
(* antiparallel vectors (elongation 0 and 180) have crossZ = 0.  The       *)
(* illuminated fraction and the limb angle are left out.                   *)
(***************************************************************************)

Illuminations ==
    {i \in [elongationDeg : 0..180, crossZ : {-1, 0, 1}] :
        i.elongationDeg \in {0, 180} => i.crossZ = 0}

getMoonIllumination(elongationDeg, crossZ) ==
    LET isWaxing == crossZ > 0
        phase == IF isWaxing THEN elongationDeg ELSE 360 - elongationDeg
    IN  [phase |-> phase, isWaxing |-> isWaxing]

ApplyGetMoonIllumination ==
    /\ fn = "getMoonIllumination" /\ out = NotApplied
    /\ out' = Value(getMoonIllumination(arg.elongationDeg, arg.crossZ))
    /\ UNCHANGED <<fn, arg, kvars, rvars, evars, bvars>>

\* C24: the phase fraction of getMoonIllumination lies in [0, 1): never
\* negative and never equal to 1, for waxing and waning Moon and every
\* elongation in [0, 180] degrees.
C24_PhaseHalfOpen ==
    (fn = "getMoonIllumination" /\ out.applied) =>
        out.value.phase >= 0 /\ out.value.phase < 360

(***************************************************************************)
(* The time scales one getMoonSightingReport query evaluates positions     *)
(* with, all taken at the best-time instant: those of etToTS, used by the  *)
(* event search; those of the optimized scan; and those of the final       *)
(* evaluation of the report.                                               *)
(***************************************************************************)

\* jdTT = J2000 + et / 86400 reads ET as TT; jdToDate cuts to a millisecond
etToTS(et) ==
    LET jdTT == et
        jdUTC_est == jdTT - 70000000
        deltaAT == IF jdUTC_est >= 0 THEN 33 ELSE 32
        jdUTC == jdTT - (deltaAT * 1000000 + 32184000)
        utc == 1000 * (jdUTC \div 1000)
    IN  computeTimeScales(utc, {}, {})

sightingTimeScales(bestTimeUTC, observer) ==
    LET scan == computeTimeScales(bestTimeUTC, {}, {})
    IN  [search |-> etToTS(scan.jdTDB),
         scan |-> scan,
         report |-> computeTimeScales(bestTimeUTC, observer.ut1utc,
                                      observer.deltaT)]

ApplySightingTimeScales ==
    /\ fn = "sightingTimeScales" /\ out = NotApplied
    /\ out' = Value(sightingTimeScales(arg.utc, arg))
    /\ UNCHANGED <<fn, arg, kvars, rvars, evars, bvars>>

\* C25: within one getMoonSightingReport query the event search, the
\* optimized scan and the final evaluation use one time-scale treatment,
\* the observer's ut1utc / deltaT override included: at the chosen instant
\* the scan and the report have the same time scales, and the search has
\* the same TT - UT1.
C25_OneTimeScale ==
    (fn = "sightingTimeScales" /\ out.applied) =>
        /\ out.value.scan = out.value.report
        /\ out.value.search.deltaT = out.value.report.deltaT

(***************************************************************************)
(* brentRoot on an arbitrary function.  Numbers are whole ticks, so every  *)
(* computed abscissa is rounded down to a tick, as the code's are rounded  *)
(* to a double; f takes small whole values, zero included.  A division     *)
(* 0/0 gives NaN: from then on a is NaN, every comparison with it is       *)
(* false, f(NaN) is NaN, b never changes again and the loop runs to        *)
(* maxIter.                                                                *)
(***************************************************************************)

BrentInputs ==
    [f : [0..MaxBracket -> -2..2], a : {0}, b : 1..MaxBracket, tol : {1, 2}]

RECURSIVE BrentFor(_, _, _)
BrentFor(f, tol, st) ==
    LET a == st.a
        b == st.b
        c == st.c
        fa == st.fa
        fb == st.fb
        fc == st.fc
        Abs(x) == IF x < 0 THEN -x ELSE x
        Floor(n, dd) == IF dd > 0 THEN n \div dd ELSE (-n) \div (-dd)
        isNaN == fa = fb
        quadratic == fa # fc /\ fb # fc
        s0 == IF isNaN THEN 0
              ELSE IF quadratic
              THEN Floor(a * fb * fc * (fb - fc) - b * fa * fc * (fa - fc)
                           + c * fa * fb * (fa - fb),
                         (fa - fb) * (fa - fc) * (fb - fc))
              ELSE Floor(a * fb - b * fa, fb - fa)
        cond1 == ~isNaN /\ (4 * s0 < 3 * a + b \/ s0 > b)
        cond2 == ~isNaN /\ st.mflag /\ 2 * Abs(s0 - b) >= Abs(b - c)
        cond3 == ~isNaN /\ ~st.mflag /\ 2 * Abs(s0 - b) >= Abs(c - st.d)
        cond4 == st.mflag /\ Abs(b - c) < tol
        cond5 == ~st.mflag /\ Abs(c - st.d) < tol
        bisect == cond1 \/ cond2 \/ cond3 \/ cond4 \/ cond5
        s == IF bisect THEN (a + b) \div 2 ELSE s0
        fs == f[s]
        next == IF fa * fs < 0
                THEN [a |-> a, fa |-> fa, b |-> s, fb |-> fs]
                ELSE [a |-> s, fa |-> fs, b |-> b, fb |-> fb]
        swap == Abs(next.fa) < Abs(next.fb)
    IN  IF st.i = MaxIter \/ Abs(b - a) < tol
        THEN [root |-> b, iterations |-> st.i, evaluations |-> st.evals]
        ELSE IF isNaN /\ ~bisect
        THEN [root |-> b, iterations |-> MaxIter,
              evaluations |-> st.evals + (MaxIter - st.i)]
        ELSE BrentFor(f, tol,
                 [a |-> IF swap THEN next.b ELSE next.a,
                  fa |-> IF swap THEN next.fb ELSE next.fa,
                  b |-> IF swap THEN next.a ELSE next.b,
                  fb |-> IF swap THEN next.fa ELSE next.fb,
                  c |-> b, fc |-> fb, d |-> c, mflag |-> bisect,
                  i |-> st.i + 1, evals |-> st.evals + 1])

brentRootOf_noSignTest(f, a, b, tol) ==
    BrentFor(f, tol, [a |-> a, fa |-> f[a], b |-> b, fb |-> f[b], c |-> a,
                      fc |-> f[a], d |-> 0, mflag |-> TRUE, i |-> 0,
                      evals |-> 2])

brentRootOf(f, a, b, tol) ==
    LET fa == f[a]
        fb == f[b]
        swap == (IF fa < 0 THEN -fa ELSE fa) < (IF fb < 0 THEN -fb ELSE fb)
        a1 == IF swap THEN b ELSE a
        b1 == IF swap THEN a ELSE b
    IN  IF fa * fb > 0
        THEN [root |-> Null, iterations |-> 0, evaluations |-> 2]
        ELSE BrentFor(f, tol,
                 [a |-> a1, fa |-> f[a1], b |-> b1, fb |-> f[b1], c |-> a1,
                  fc |-> f[a1], d |-> 0, mflag |-> TRUE, i |-> 0,
                  evals |-> 2])

ApplyBrentRoot ==
    /\ fn = "brentRoot" /\ out = NotApplied
    /\ out' = Value(brentRootOf(arg.f, arg.a, arg.b, arg.tol))
    /\ UNCHANGED <<fn, arg, kvars, rvars, evars, bvars>>

C27_WalkEnds ==
    (fn = "fromBuffer" /\ out.applied) => out.threw # "never returns"

(***************************************************************************)
(* The doubles evaluateType2 and evaluateType3 read.  A segment has N      *)
(* records of rsize doubles from ET init on, each intlen = 2 long; rsize   *)
(* is 2 + 3 n for type 2 and 2 + 6 n for type 3, n the number of           *)
(* coefficients per component that the record holds.  Offsets are in       *)
(* doubles from seg.dataOffset.                                            *)
(***************************************************************************)

SegmentReads ==
    [dataType : {2, 3}, n : 1..MaxCoeffs, N : 1..MaxRecords,
     et : EphemerisTimes]

\* readCoeffs(dv, offset, n, le): the doubles read
readCoeffs(offset, n) == offset..(offset + n - 1)

\* Math.round of a quotient of whole numbers
RoundDiv(p, q) == (2 * p + q) \div (2 * q)

evaluateReads(components, rsize, N, init, intlen, et) ==
    LET degree == RoundDiv(rsize - 2, components)
        nCoeffs == degree + 1
        raw == (et - init) \div intlen
        recIdx == IF raw > N - 1
                  THEN (IF N - 1 < 0 THEN 0 ELSE N - 1)
                  ELSE (IF raw < 0 THEN 0 ELSE raw)
        recOffset == recIdx * rsize
    IN  [recIdx |-> recIdx, recOffset |-> recOffset, nCoeffs |-> nCoeffs,
         header |-> {recOffset, recOffset + 1},
         coeffs |-> [c \in 0..(components - 1) |->
                        readCoeffs(recOffset + 2 + c * nCoeffs, nCoeffs)]]

evaluateType2Reads(rsize, N, init, intlen, et) ==
    evaluateReads(3, rsize, N, init, intlen, et)

evaluateType3Reads(rsize, N, init, intlen, et) ==
    evaluateReads(6, rsize, N, init, intlen, et)

ApplyEvaluateSegment ==
    /\ fn = "evaluateSegment" /\ out = NotApplied
    /\ out' = Value(IF arg.dataType = 2
                    THEN evaluateType2Reads(2 + 3 * arg.n, arg.N, 0, 2, arg.et)
                    ELSE evaluateType3Reads(2 + 6 * arg.n, arg.N, 0, 2, arg.et))
    /\ UNCHANGED <<fn, arg, kvars, rvars, evars, bvars>>

\* C28: for a record of rsize doubles the evaluator reads n = (rsize - 2)/3
\* coefficients per component (n = (rsize - 2)/6 for type 3) from the
\* consecutive ranges that start at double 2 of the record selected by
\* floor((et - init)/intlen) clamped to [0, N - 1], and no read goes beyond
\* that record's rsize doubles.
C28_ReadsWithinRecord ==
    (fn = "evaluateSegment" /\ out.applied) =>
        LET components == IF arg.dataType = 2 THEN 3 ELSE 6
            rsize == 2 + components * arg.n
            r == out.value
        IN  /\ r.nCoeffs = arg.n
            /\ \A c \in 0..(components - 1) :
                   r.coeffs[c] = (r.recOffset + 2 + c * arg.n)
                                     ..(r.recOffset + 1 + (c + 1) * arg.n)
            /\ \A c \in 0..(components - 1) : \A i \in r.coeffs[c] :
                   i < r.recOffset + rsize

(* The specification of Part 5 *)

FInputs ==
    {<<"bestTimeOptimized", a>> : a \in ScanInputs}
        \cup {<<"yallopCategory", q>> : q \in QValues}
        \cup {<<"odehZone", V>> : V \in VValues}
        \cup {<<f, g>> : f \in {"computeYallopQ", "computeOdehV",
                                 "getMoonVisibilityEstimate"},
                         g \in Geometries}
        \cup {<<"getState", r>> : r \in StateRequests}
        \cup {<<"fromBuffer", b>> : b \in DafBuffers}
        \cup {<<"getMoonPhase", d>> : d \in PhaseDates}
        \cup {<<"computeTimeScales", t>> : t \in TimeScaleInputs}
        \cup {<<"computeCrescentGeometry", g>> : g \in [moon : AzAlts, sun : AzAlts]}
        \cup {<<"getMoonIllumination", i>> : i \in Illuminations}
        \cup {<<"sightingTimeScales", t>> : t \in TimeScaleInputs}
        \cup {<<"brentRoot", b>> : b \in BrentInputs}
        \cup {<<"evaluateSegment", s>> : s \in SegmentReads}

FInit ==
    /\ KIdle /\ RIdle /\ EIdle /\ BIdle
    /\ \E in \in FInputs : fn = in[1] /\ arg = in[2]
    /\ out = NotApplied

FNext ==
    \/ ApplyBestTimeOptimized
    \/ ApplyYallopCategory
    \/ ApplyOdehZone
    \/ ApplyComputeYallopQ
    \/ ApplyComputeOdehV
    \/ ApplyGetMoonVisibilityEstimate
    \/ ApplyGetState
    \/ ApplyFromBuffer
    \/ ApplyGetMoonPhase
    \/ ApplyComputeTimeScales
    \/ ApplyComputeCrescentGeometry
    \/ ApplyGetMoonIllumination
    \/ ApplySightingTimeScales
    \/ ApplyBrentRoot
    \/ ApplyEvaluateSegment

SpecFunctions == FInit /\ [][FNext]_vars

====
